---- MODULE Spec2Model ----
(***************************************************************************)
(* Model of AudioTranscriber (Audio Transcriber/audio_transcriber_         *)
(* streamlit.py): the size router transcribe_audio, the chunk-length       *)
(* computation and split of split_audio_into_chunks, and the sequential    *)
(* export / transcribe / delete loop of transcribe_large_file with its     *)
(* try/finally cleanup.                                                    *)
(*                                                                         *)
(* The collaborators (decoder, encoder, transcription service, file        *)
(* system, progress callback) are scripted by the inputs chosen in Init:   *)
(* one run of transcribe_audio is deterministic in them.                   *)
(*                                                                         *)
(* Texts are sequences of one-character strings, durations are             *)
(* milliseconds, sizes are bytes.                                          *)
(***************************************************************************)
EXTENDS Integers, Sequences, FiniteSets, TLC

VARIABLES
    pc,                 \* position in transcribe_audio / transcribe_large_file
    file_size,          \* os.path.getsize(audio_file_path)
    audio,              \* what load_audio decodes: frame_rate, sample_width, channels, duration
    chunk_size_mb,      \* chunk_size_mb argument of split_audio_into_chunks
    progress_callback,  \* the observer: absent, well-behaved, or raising at its k-th call
    fault,              \* the collaborator step that fails in this run, if any
    responses,          \* text the service returns for the call on chunk i (index 0 for the original file)
    rmtreeOk,           \* whether shutil.rmtree succeeds
    chunks,             \* result of split_audio_into_chunks: the chunk lengths in order
    i,                  \* loop index of enumerate(chunks)
    transcripts,        \* the list transcripts
    chunk_length_ms,    \* local chunk_length_ms of split_audio_into_chunks (-1: not computed)
    full_transcript,    \* local full_transcript
    pending,            \* exception in flight while the finally block runs
    dirExists,          \* temp_audio_chunks exists
    files,              \* indices k whose chunk_k.mp3 exists in temp_audio_chunks
    inflight,           \* transcription calls issued and not yet returned
    cbCalls,            \* number of invocations of progress_callback so far
    log,                \* collaborator operations performed, in order
    result              \* what the caller of transcribe_audio receives

vars == <<pc, file_size, audio, chunk_size_mb, progress_callback, fault, responses,
          rmtreeOk, chunks, chunk_length_ms, i, transcripts, full_transcript, pending, dirExists,
          files, inflight, cbCalls, log, result>>

inputs == <<file_size, audio, chunk_size_mb, progress_callback, fault, responses, rmtreeOk>>

(***************************************************************************)
(* Bounds of the model.                                                    *)
(***************************************************************************)
MaxChunks == 3

SplitMaxChunks == 4

(***************************************************************************)
(* Program constants and pure functions.                                   *)
(***************************************************************************)
max_file_size == 25 * 1024 * 1024

\* chunk_size_mb passed by transcribe_large_file
LargeFileChunkSizeMb == 20

Min(a, b) == IF a < b THEN a ELSE b

\* AudioSegment.frame_width as read on line 72: sample_width * channels.
frame_width(a) == a.sample_width * a.channels

\* bitrate of line 72 without its constant factor 8 (the same factor 8 is in
\* the numerator of line 74, so the quotient is unchanged and the products
\* stay within 32 bits).
bitrate8(a) == a.frame_rate * frame_width(a) * a.channels

\* 1024 * 1024 * 8 * 1000 / 8: numerator of line 74 per megabyte of budget,
\* with the factor 8 cancelled against bitrate.
MsBytesPerMb == 1024 * 1024 * 1000

\* int((chunk_size_bytes * 8 * 1000) / bitrate), lines 73-74, for bitrate # 0.
\* floor(mb * K / b) is evaluated as mb * (K div b) + (mb * (K mod b)) div b.
chunk_length_of(a, mb) ==
    LET b == bitrate8(a)
    IN  mb * (MsBytesPerMb \div b) + (mb * (MsBytesPerMb % b)) \div b

\* ceil(len(audio_segment) / float(chunk_length)) of pydub.utils.make_chunks.
Ceil(d, l) == IF d % l = 0 THEN d \div l ELSE (d \div l) + 1

make_chunks_floor(d, l) ==
    [k \in 1..(d \div l) |-> Min(k * l, d) - Min((k - 1) * l, d)]

\* make_chunks(audio, chunk_length_ms), line 75: the slices
\* audio[k*l : (k+1)*l] for k in range(ceil(len/l)); a slice is clamped to the
\* audio's length.  The chunks are represented by their lengths.
make_chunks(d, l) ==
    [k \in 1..Ceil(d, l) |-> Min(k * l, d) - Min((k - 1) * l, d)]

\* split_audio_into_chunks, lines 71-76.  A zero bitrate makes the division
\* of line 74 raise, a zero chunk length makes the division inside
\* make_chunks raise.
split_audio_into_chunks(a, mb) ==
    IF bitrate8(a) = 0
    THEN [ok |-> FALSE, chunks |-> <<>>, error |-> "ZeroDivisionError"]
    ELSE IF chunk_length_of(a, mb) = 0
         THEN [ok |-> FALSE, chunks |-> <<>>, error |-> "ZeroDivisionError"]
         ELSE [ok |-> TRUE,
               chunks |-> make_chunks(a.duration, chunk_length_of(a, mb)),
               error |-> "none"]

RouteDirect_inclusive(s) == s <= max_file_size

\* the test of line 93
RouteDirect(s) == s < max_file_size

RECURSIVE Join_nosep(_)
Join_nosep(ts) ==
    IF ts = <<>> THEN <<>> ELSE Head(ts) \o Join_nosep(Tail(ts))

\* " ".join(transcripts), line 142
RECURSIVE Join(_)
Join(ts) ==
    IF ts = <<>> THEN <<>>
    ELSE IF Len(ts) = 1 THEN ts[1]
         ELSE ts[1] \o <<" ">> \o Join(Tail(ts))

\* temp_file.unlink(), line 134
FilesAfterUnlink(fs, k) == fs \ {k}

(***************************************************************************)
(* Inputs.                                                                 *)
(***************************************************************************)
Texts == {<<"a">>, <<"b", "c">>}

FileSizes == {max_file_size - 1, max_file_size, 60 * 1024 * 1024}

\* sample formats: CD stereo, 16 kHz mono 16 bit
Formats == {[frame_rate |-> 44100, sample_width |-> 2, channels |-> 2],
            [frame_rate |-> 16000, sample_width |-> 2, channels |-> 1]}

\* formats whose bitrate is 0
DegenerateFormats == {[frame_rate |-> 0, sample_width |-> 2, channels |-> 2],
                      [frame_rate |-> 8000, sample_width |-> 2, channels |-> 0]}

WithDuration(f, d) ==
    [frame_rate |-> f.frame_rate, sample_width |-> f.sample_width,
     channels |-> f.channels, duration |-> d]

\* durations giving 0, 1, 2, 3 and MaxChunks chunks of length l
Durations(l) == {0, 1, 2 * l, 2 * l + 1, (MaxChunks - 1) * l + 1}

Audios ==
    UNION {{WithDuration(f, d) :
                d \in Durations(chunk_length_of(f, LargeFileChunkSizeMb))} : f \in Formats}
    \cup {WithDuration(f, d) : f \in DegenerateFormats, d \in {1000}}

\* the invocation of the callback at which it raises (0: never)
CallbackRaiseAt == {1, 6, 7}

Callbacks ==
    {[present |-> FALSE, raiseAt |-> 0], [present |-> TRUE, raiseAt |-> 0]}
    \cup {[present |-> TRUE, raiseAt |-> k] : k \in CallbackRaiseAt}

LoopFaultKinds == {"export_open", "export_encode", "transcribe", "unlink"}

Faults ==
    {[kind |-> "none", at |-> 0], [kind |-> "load", at |-> 0]}
    \cup {[kind |-> k, at |-> j] : k \in LoopFaultKinds, j \in 0..(MaxChunks - 1)}

Pending == [status |-> "pending", text |-> <<>>, error |-> "none"]

Ok(t) == [status |-> "ok", text |-> t, error |-> "none"]

Err(e) == [status |-> "error", text |-> <<>>, error |-> e]

Entry(o, k, b) == [op |-> o, idx |-> k, ok |-> b]

\* index used in the log for the caller's original file
Original == -1

\* what earlier calls in the same working directory can have left behind:
\* nothing, or, when their rmtree failed, temp_audio_chunks holding any set of
\* chunk files (each failing call can add the file of the chunk it stopped at)
DirStates ==
    {[exists |-> FALSE, files |-> {}]}
    \cup {[exists |-> TRUE, files |-> fs] : fs \in SUBSET (0..(MaxChunks - 1))}

(***************************************************************************)
(* Initial state: transcribe_audio is about to run on one input.  Nothing  *)
(* in the code clears temp_audio_chunks before a run (line 119 is          *)
(* mkdir(exist_ok=True)), so the run starts in whatever state of the       *)
(* directory an earlier run ended in.                                      *)
(***************************************************************************)
Locals ==
    /\ chunks = <<>>
    /\ chunk_length_ms = -1
    /\ i = 0
    /\ transcripts = <<>>
    /\ full_transcript = <<>>
    /\ pending = "none"
    /\ inflight = {}
    /\ cbCalls = 0
    /\ log = <<>>
    /\ result = Pending

Init ==
    /\ pc = "start"
    /\ file_size \in FileSizes
    /\ audio \in Audios
    /\ chunk_size_mb = LargeFileChunkSizeMb
    /\ progress_callback \in Callbacks
    /\ fault \in Faults
    /\ responses \in [0..(MaxChunks - 1) -> Texts]
    /\ rmtreeOk \in BOOLEAN
    /\ \E st \in DirStates : dirExists = st.exists /\ files = st.files
    /\ Locals

(***************************************************************************)
(* Control transfer.                                                       *)
(***************************************************************************)
CbPresent == progress_callback.present

\* the invocation of progress_callback made by the current step raises
CbRaises == CbPresent /\ progress_callback.raiseAt = cbCalls + 1

\* "if progress_callback: progress_callback(...)"
Notified == cbCalls' = IF CbPresent THEN cbCalls + 1 ELSE cbCalls

Goto(p) == pc' = p /\ UNCHANGED <<result, pending, i>>

\* an exception outside the try block reaches the caller at once
Abort(e) == pc' = "done" /\ result' = Err(e) /\ UNCHANGED <<pending, i>>

RaiseInTry_swallow(e) ==
    pc' = "loop" /\ i' = i + 1 /\ UNCHANGED <<pending, result>>

\* an exception inside the try block of lines 123-142 runs the finally block
\* and is re-raised after it
RaiseInTry(e) == pc' = "finally" /\ pending' = e /\ UNCHANGED <<result, i>>

(***************************************************************************)
(* transcribe_audio, lines 87-102.                                         *)
(***************************************************************************)
\* lines 88-89: "Checking file size..."
CheckSize ==
    /\ pc = "start"
    /\ Notified
    /\ IF CbRaises THEN Abort("CallbackError") ELSE Goto("route")
    /\ UNCHANGED <<inputs, chunks, chunk_length_ms, transcripts, full_transcript,
                   dirExists, files, inflight, log>>

\* lines 91-99: get_file_size, the size test and the status message of the
\* chosen branch
Route ==
    /\ pc = "route"
    /\ Notified
    /\ IF CbRaises THEN Abort("CallbackError")
       ELSE Goto(IF RouteDirect(file_size) THEN "direct" ELSE "large")
    /\ UNCHANGED <<inputs, chunks, chunk_length_ms, transcripts, full_transcript,
                   dirExists, files, inflight, log>>

\* line 96 and transcribe_file, lines 79-80: the call on the original file is issued
IssueDirect ==
    /\ pc = "direct"
    /\ inflight' = inflight \cup {Original}
    /\ log' = Append(log, Entry("call", Original, TRUE))
    /\ Goto("direct_wait")
    /\ UNCHANGED <<inputs, chunks, chunk_length_ms, transcripts, full_transcript,
                   dirExists, files, cbCalls>>

\* lines 80-85, 96, 102: the blocking call returns its text or raises
ReturnDirect ==
    /\ pc = "direct_wait"
    /\ inflight' = inflight \ {Original}
    /\ IF fault.kind = "transcribe" /\ fault.at = 0
       THEN /\ log' = Append(log, Entry("return", Original, FALSE))
            /\ Abort("TranscriptionError")
       ELSE /\ log' = Append(log, Entry("return", Original, TRUE))
            /\ pc' = "done"
            /\ result' = Ok(responses[0])
            /\ UNCHANGED <<pending, i>>
    /\ UNCHANGED <<inputs, chunks, chunk_length_ms, transcripts, full_transcript,
                   dirExists, files, cbCalls>>

(***************************************************************************)
(* transcribe_large_file, lines 104-149.                                   *)
(***************************************************************************)
\* lines 105-108: "Loading audio file..." and load_audio
LoadAudio ==
    /\ pc = "large"
    /\ Notified
    /\ IF CbRaises
       THEN Abort("CallbackError") /\ UNCHANGED log
       ELSE IF fault.kind = "load"
            THEN /\ log' = Append(log, Entry("load", Original, FALSE))
                 /\ Abort("FileNotFoundError")
            ELSE /\ log' = Append(log, Entry("load", Original, TRUE))
                 /\ Goto("split")
    /\ UNCHANGED <<inputs, chunks, chunk_length_ms, transcripts, full_transcript,
                   dirExists, files, inflight>>

\* lines 110-113: "Splitting audio into chunks..." and split_audio_into_chunks
SplitAudio ==
    /\ pc = "split"
    /\ Notified
    /\ IF CbRaises
       THEN Abort("CallbackError") /\ UNCHANGED <<chunks, chunk_length_ms>>
       ELSE LET r == split_audio_into_chunks(audio, LargeFileChunkSizeMb)
            IN  /\ chunks' = r.chunks
                /\ chunk_length_ms' = IF bitrate8(audio) = 0 THEN chunk_length_ms
                                      ELSE chunk_length_of(audio, LargeFileChunkSizeMb)
                /\ IF r.ok THEN Goto("report") ELSE Abort(r.error)
    /\ UNCHANGED <<inputs, transcripts, full_transcript, dirExists, files, inflight, log>>

\* lines 115-121: "Audio split into n chunks", mkdir(exist_ok=True), transcripts = []
MakeDir ==
    /\ pc = "report"
    /\ Notified
    /\ IF CbRaises
       THEN Abort("CallbackError") /\ UNCHANGED <<dirExists, transcripts, log>>
       ELSE /\ dirExists' = TRUE
            /\ transcripts' = <<>>
            /\ log' = Append(log, Entry("mkdir", Original, TRUE))
            /\ Goto("loop")
    /\ UNCHANGED <<inputs, chunks, chunk_length_ms, full_transcript, files, inflight>>

\* lines 124-126: the next chunk of enumerate(chunks), "Processing chunk i+1/n..."
NextChunk ==
    /\ pc = "loop"
    /\ i < Len(chunks)
    /\ Notified
    /\ IF CbRaises THEN RaiseInTry("CallbackError") ELSE Goto("export")
    /\ UNCHANGED <<inputs, chunks, chunk_length_ms, transcripts, full_transcript,
                   dirExists, files, inflight, log>>

\* lines 128-129: chunk.export(temp_dir / chunk_i.mp3); a failed encoding
\* leaves the file it had opened
Export ==
    /\ pc = "export"
    /\ IF fault.kind = "export_open" /\ fault.at = i
       THEN /\ log' = Append(log, Entry("export", i, FALSE))
            /\ files' = files
            /\ RaiseInTry("ExportError")
       ELSE IF fault.kind = "export_encode" /\ fault.at = i
            THEN /\ log' = Append(log, Entry("export", i, FALSE))
                 /\ files' = files \cup {i}
                 /\ RaiseInTry("ExportError")
            ELSE /\ log' = Append(log, Entry("export", i, TRUE))
                 /\ files' = files \cup {i}
                 /\ Goto("transcribe")
    /\ UNCHANGED <<inputs, chunks, chunk_length_ms, transcripts, full_transcript,
                   dirExists, inflight, cbCalls>>

\* line 131 and transcribe_file, lines 79-80: the call on chunk i is issued
IssueChunk ==
    /\ pc = "transcribe"
    /\ inflight' = inflight \cup {i}
    /\ log' = Append(log, Entry("call", i, TRUE))
    /\ Goto("await")
    /\ UNCHANGED <<inputs, chunks, chunk_length_ms, transcripts, full_transcript,
                   dirExists, files, cbCalls>>

\* lines 80-85 and 131-132: the call returns and its text is appended, or it raises
ReturnChunk ==
    /\ pc = "await"
    /\ inflight' = inflight \ {i}
    /\ IF fault.kind = "transcribe" /\ fault.at = i
       THEN /\ log' = Append(log, Entry("return", i, FALSE))
            /\ transcripts' = transcripts
            /\ RaiseInTry("TranscriptionError")
       ELSE /\ log' = Append(log, Entry("return", i, TRUE))
            /\ transcripts' = Append(transcripts, responses[i])
            /\ Goto("unlink")
    /\ UNCHANGED <<inputs, chunks, chunk_length_ms, full_transcript, dirExists, files, cbCalls>>

\* lines 134-137: temp_file.unlink(), "Chunk i+1/n completed", next iteration
Unlink ==
    /\ pc = "unlink"
    /\ IF fault.kind = "unlink" /\ fault.at = i
       THEN /\ log' = Append(log, Entry("unlink", i, FALSE))
            /\ files' = files
            /\ cbCalls' = cbCalls
            /\ RaiseInTry("OSError")
       ELSE /\ log' = Append(log, Entry("unlink", i, TRUE))
            /\ files' = FilesAfterUnlink(files, i)
            /\ Notified
            /\ IF CbRaises THEN RaiseInTry("CallbackError")
               ELSE pc' = "loop" /\ i' = i + 1 /\ UNCHANGED <<result, pending>>
    /\ UNCHANGED <<inputs, chunks, chunk_length_ms, transcripts, full_transcript,
                   dirExists, inflight>>

\* lines 139-142: the loop is exhausted, "Merging transcripts...", " ".join
Merge ==
    /\ pc = "loop"
    /\ i >= Len(chunks)
    /\ Notified
    /\ IF CbRaises
       THEN RaiseInTry("CallbackError") /\ UNCHANGED full_transcript
       ELSE full_transcript' = Join(transcripts) /\ Goto("finally")
    /\ UNCHANGED <<inputs, chunks, chunk_length_ms, transcripts, dirExists, files,
                   inflight, log>>

\* lines 144-149: the finally block removes the directory if it exists; then
\* the pending exception is re-raised or full_transcript is returned.  An
\* exception of rmtree replaces both; a failing rmtree leaves the directory
\* and may have deleted any of the files in it before it failed.
Cleanup ==
    /\ pc = "finally"
    /\ pc' = "done"
    /\ IF dirExists
       THEN IF rmtreeOk
            THEN /\ log' = Append(log, Entry("rmtree", Original, TRUE))
                 /\ dirExists' = FALSE
                 /\ files' = {}
                 /\ result' = IF pending # "none" THEN Err(pending) ELSE Ok(full_transcript)
            ELSE /\ log' = Append(log, Entry("rmtree", Original, FALSE))
                 /\ dirExists' = dirExists
                 /\ files' \in SUBSET files
                 /\ result' = Err("OSError")
       ELSE /\ UNCHANGED <<log, dirExists, files>>
            /\ result' = IF pending # "none" THEN Err(pending) ELSE Ok(full_transcript)
    /\ UNCHANGED <<inputs, chunks, chunk_length_ms, i, transcripts, full_transcript,
                   pending, inflight, cbCalls>>

Next ==
    \/ CheckSize
    \/ Route
    \/ IssueDirect
    \/ ReturnDirect
    \/ LoadAudio
    \/ SplitAudio
    \/ MakeDir
    \/ NextChunk
    \/ Export
    \/ IssueChunk
    \/ ReturnChunk
    \/ Unlink
    \/ Merge
    \/ Cleanup

Spec == Init /\ [][Next]_vars

(***************************************************************************)
(* split_audio_into_chunks on its own: the function is applied to an       *)
(* audio and a chunk-size budget drawn from a wider set of inputs.         *)
(***************************************************************************)
SplitFormats ==
    Formats \cup DegenerateFormats
    \cup {[frame_rate |-> 16384, sample_width |-> 2, channels |-> 1],
          [frame_rate |-> 8000, sample_width |-> 1, channels |-> 1],
          [frame_rate |-> 192000, sample_width |-> 4, channels |-> 8],
          [frame_rate |-> 44100, sample_width |-> 3, channels |-> 90],
          [frame_rate |-> 48000, sample_width |-> 4, channels |-> 105]}

SplitBudgetsMb == {1, 2, 15, 20}

\* the products of chunk_length_of stay within 32 bits
Representable(f, mb) ==
    IF bitrate8(f) = 0 THEN TRUE
    ELSE MsBytesPerMb % bitrate8(f) <= 2147483647 \div mb

SplitDurations(f, mb) ==
    IF bitrate8(f) = 0 \/ chunk_length_of(f, mb) = 0
    THEN {0, 1, 1000}
    ELSE LET l == chunk_length_of(f, mb)
         IN  {d \in {0, 1, l - 1, l, l + 1, 2 * l, 2 * l + 1,
                     (SplitMaxChunks - 1) * l + 1, SplitMaxChunks * l, 1440000} :
                 Ceil(d, l) <= SplitMaxChunks}

SplitInit ==
    /\ pc = "split_call"
    /\ \E f \in SplitFormats : \E mb \in SplitBudgetsMb :
          /\ Representable(f, mb)
          /\ chunk_size_mb = mb
          /\ \E d \in SplitDurations(f, mb) : audio = WithDuration(f, d)
    /\ file_size = max_file_size
    /\ progress_callback = [present |-> FALSE, raiseAt |-> 0]
    /\ fault = [kind |-> "none", at |-> 0]
    /\ responses = [k \in 0..(MaxChunks - 1) |-> <<"a">>]
    /\ rmtreeOk = TRUE
    /\ dirExists = FALSE
    /\ files = {}
    /\ Locals

\* one call of split_audio_into_chunks(audio, chunk_size_mb), lines 71-76
ApplySplit ==
    /\ pc = "split_call"
    /\ LET r == split_audio_into_chunks(audio, chunk_size_mb)
       IN  /\ chunks' = r.chunks
           /\ chunk_length_ms' = IF bitrate8(audio) = 0 THEN chunk_length_ms
                                 ELSE chunk_length_of(audio, chunk_size_mb)
           /\ result' = IF r.ok THEN Ok(<<>>) ELSE Err(r.error)
    /\ pc' = "split_done"
    /\ UNCHANGED <<inputs, i, transcripts, full_transcript, pending, dirExists, files,
                   inflight, cbCalls, log>>

SplitNext == ApplySplit

SplitSpec == SplitInit /\ [][SplitNext]_vars

(***************************************************************************)
(* Properties.                                                             *)
(***************************************************************************)
Positions == 1..Len(log)

Logged(o, k, b) == \E p \in Positions : log[p] = Entry(o, k, b)

Attempted(o) == \E p \in Positions : log[p].op = o

\* transcribe_large_file decoded the audio
Loaded == Logged("load", Original, TRUE)

DirectPcs == {"direct", "direct_wait"}

ChunkedPcs == {"large", "split", "report", "loop", "export", "transcribe", "await",
               "unlink", "finally"}

\* C1: the direct path (one call on the original file, nothing loaded,
\* split or exported) is taken if and only if the file size is below
\* 25 MiB = 26214400 bytes; a size of exactly 25 MiB takes the chunked path.
C1_SizeRouting ==
    /\ pc \in DirectPcs => file_size < 26214400
    /\ pc \in ChunkedPcs => file_size >= 26214400
    /\ file_size < 26214400 =>
          /\ \A p \in Positions : log[p].idx = Original /\ log[p].op \in {"call", "return"}
          /\ Cardinality({p \in Positions : log[p].op = "call"}) <= 1
          /\ pc = "done" /\ result.error # "CallbackError" => Logged("call", Original, TRUE)
    /\ file_size >= 26214400 =>
          /\ ~Logged("call", Original, TRUE)
          /\ pc = "done" /\ result.error # "CallbackError" => Attempted("load")

C1_Witness ==
    /\ file_size = 26214400
    /\ pc = "export"
    /\ Loaded

\* the fault scripted for this run is one the export or the transcription
\* call of some chunk raises, or there is none, and the callback never raises
ExportOrCallFault ==
    /\ fault.kind \in {"none", "export_open", "export_encode", "transcribe"}
    /\ progress_callback.raiseAt = 0

\* C2: once transcribe_large_file has gone through its chunk loop and
\* returned or raised, whatever chunk the export or the transcription call
\* failed at (or with no failure), no chunk file is left and
\* temp_audio_chunks does not exist.
C2_CleanupOnEveryExit ==
    (pc = "done" /\ Logged("mkdir", Original, TRUE) /\ ExportOrCallFault) =>
        (~dirExists /\ files = {})

\* total length of the service's texts for chunks 0 .. k-1
RECURSIVE TextLenBefore(_)
TextLenBefore(k) ==
    IF k = 0 THEN 0 ELSE TextLenBefore(k - 1) + Len(responses[k - 1])

\* C3: when every call succeeds the returned text consists of the texts of
\* chunk 0, chunk 1, ... in that order, each present once, separated by
\* exactly one space; a single chunk's text is returned unchanged.
C3_MergeInOrder ==
    (pc = "done" /\ result.status = "ok" /\ Loaded) =>
        LET n == Len(chunks)
            t == result.text
            start(k) == TextLenBefore(k) + k
        IN  /\ Len(t) = TextLenBefore(n) + (IF n = 0 THEN 0 ELSE n - 1)
            /\ \A k \in 0..(n - 1) :
                  SubSeq(t, start(k) + 1, start(k) + Len(responses[k])) = responses[k]
            /\ \A k \in 1..(n - 1) : t[start(k)] = " "
            /\ n = 1 => t = responses[0]

C3_Witness ==
    /\ pc = "done"
    /\ result.status = "ok"
    /\ Len(chunks) = 3
    /\ responses[0] = <<"b", "c">> /\ responses[1] = <<"a">> /\ responses[2] = <<"a">>
    /\ result.text = <<"b", "c", " ", "a", " ", "a">>

RECURSIVE SumSeq(_)
SumSeq(q) == IF q = <<>> THEN 0 ELSE Head(q) + SumSeq(Tail(q))

\* C4: for a duration D > 0 and a computed chunk length L > 0 the split
\* yields ceil(D/L) chunks (3 for 24 minutes in 8-minute chunks) whose
\* lengths sum to D; all but the last are L long, the last is in (0, L].
C4_SplitCoverage ==
    (pc = "split_done" /\ result.status = "ok" /\ audio.duration > 0) =>
        LET D == audio.duration
            L == chunk_length_ms
            n == Len(chunks)
        IN  /\ L > 0
            /\ n >= 1
            /\ (n - 1) * L < D /\ D <= n * L
            /\ SumSeq(chunks) = D
            /\ \A k \in 1..(n - 1) : chunks[k] = L
            /\ 0 < chunks[n] /\ chunks[n] <= L
            /\ (D = 1440000 /\ L = 480000) => n = 3

C4_Witness ==
    /\ pc = "split_done"
    /\ audio.duration = 1440000
    /\ chunk_length_ms = 480000
    /\ chunks = <<480000, 480000, 480000>>

\* C5: for strictly positive budget, sample rate, sample width and channel
\* count the chunk length computed by split_audio_into_chunks is > 0.
C5_ChunkLengthPositive ==
    (/\ pc = "split_done"
     /\ chunk_size_mb > 0
     /\ audio.frame_rate > 0 /\ audio.sample_width > 0 /\ audio.channels > 0) =>
        chunk_length_ms > 0

\* the callback, if any, never raises and the decoder delivered the audio
SplitReached ==
    /\ pc = "done"
    /\ Loaded
    /\ progress_callback.raiseAt = 0

\* C6: with a bitrate of 0, or a computed chunk length <= 0, the chunked
\* pipeline fails with InvalidAudioPropertiesError before any chunk is
\* produced, exported or sent to the service.
C6_InvalidAudioProperties ==
    (SplitReached /\ (bitrate8(audio) = 0 \/ chunk_length_ms = 0)) =>
        /\ result = Err("InvalidAudioPropertiesError")
        /\ chunks = <<>>
        /\ ~Attempted("export") /\ ~Attempted("call")

\* C7: a zero-duration audio on the chunked path gives an empty chunk
\* sequence and the failure EmptyAudioError, never a transcript; any other
\* duration gives a non-empty chunk sequence.
C7_EmptyAudio ==
    /\ (SplitReached /\ bitrate8(audio) # 0 /\ audio.duration = 0) =>
          /\ chunks = <<>>
          /\ result.status = "error"
          /\ fault.kind = "none" /\ rmtreeOk => result.error = "EmptyAudioError"
    /\ (SplitReached /\ bitrate8(audio) # 0 /\ audio.duration > 0) => chunks # <<>>

FailedAt(p) == log[p].op \in {"export", "return"} /\ ~log[p].ok

\* C8: on the chunked path every chunk's call is issued at most once, after
\* the first failing export or call nothing more is exported or sent, the
\* caller then gets an error carrying no text, and a successful result is
\* the merge of the texts of all chunks.
C8_NoRetryNoPartial ==
    /\ \A p, q \in Positions :
          (log[p].op = "call" /\ log[q].op = "call" /\ log[p].idx = log[q].idx) => p = q
    /\ \A p, q \in Positions :
          (FailedAt(p) /\ q > p) => log[q].op \notin {"export", "call", "return"}
    /\ (pc = "done" /\ \E p \in Positions : FailedAt(p)) =>
          (result.status = "error" /\ result.text = <<>>)
    /\ (pc = "done" /\ Loaded /\ result.status = "ok") =>
          /\ Len(transcripts) = Len(chunks)
          /\ \A k \in 0..(Len(chunks) - 1) : Logged("return", k, TRUE)
          /\ result.text = full_transcript

C8_Witness ==
    /\ pc = "done"
    /\ Len(chunks) = 3
    /\ fault = [kind |-> "export_encode", at |-> 1]
    /\ transcripts = <<responses[0]>>
    /\ Cardinality({p \in Positions : log[p].op = "call"}) = 1
    /\ result = Err("ExportError")

\* what the run does on the same inputs when no callback is passed:
\* the operations on chunks 0 .. k-1, all successful
RECURSIVE PlainChunks(_)
PlainChunks(k) ==
    IF k = 0 THEN <<>>
    ELSE PlainChunks(k - 1) \o <<Entry("export", k - 1, TRUE), Entry("call", k - 1, TRUE),
                                 Entry("return", k - 1, TRUE), Entry("unlink", k - 1, TRUE)>>

\* the operations on the chunk at which the scripted fault strikes
PlainFaulty(k) ==
    CASE fault.kind = "export_open" -> <<Entry("export", k, FALSE)>>
      [] fault.kind = "export_encode" -> <<Entry("export", k, FALSE)>>
      [] fault.kind = "transcribe" ->
           <<Entry("export", k, TRUE), Entry("call", k, TRUE), Entry("return", k, FALSE)>>
      [] fault.kind = "unlink" ->
           <<Entry("export", k, TRUE), Entry("call", k, TRUE), Entry("return", k, TRUE),
             Entry("unlink", k, FALSE)>>

PlainFaultError ==
    CASE fault.kind \in {"export_open", "export_encode"} -> "ExportError"
      [] fault.kind = "transcribe" -> "TranscriptionError"
      [] fault.kind = "unlink" -> "OSError"

PlainRun ==
    IF RouteDirect(file_size)
    THEN IF fault.kind = "transcribe" /\ fault.at = 0
         THEN [log |-> <<Entry("call", Original, TRUE), Entry("return", Original, FALSE)>>,
               result |-> Err("TranscriptionError")]
         ELSE [log |-> <<Entry("call", Original, TRUE), Entry("return", Original, TRUE)>>,
               result |-> Ok(responses[0])]
    ELSE IF fault.kind = "load"
    THEN [log |-> <<Entry("load", Original, FALSE)>>, result |-> Err("FileNotFoundError")]
    ELSE LET r == split_audio_into_chunks(audio, LargeFileChunkSizeMb)
             n == Len(r.chunks)
             faulty == fault.kind \in LoopFaultKinds /\ fault.at < n
             k == IF faulty THEN fault.at ELSE n
         IN  IF ~r.ok
             THEN [log |-> <<Entry("load", Original, TRUE)>>, result |-> Err(r.error)]
             ELSE [log |-> <<Entry("load", Original, TRUE), Entry("mkdir", Original, TRUE)>>
                           \o PlainChunks(k)
                           \o (IF faulty THEN PlainFaulty(k) ELSE <<>>)
                           \o <<Entry("rmtree", Original, rmtreeOk)>>,
                   result |-> IF ~rmtreeOk THEN Err("OSError")
                              ELSE IF faulty THEN Err(PlainFaultError)
                              ELSE Ok(Join([j \in 1..n |-> responses[j - 1]]))]

\* C9: with any progress callback, one that raises included, the run
\* performs the same exports, calls and deletions and gives the caller the
\* same result or error as the run without a callback on the same inputs.
C9_CallbackNoInfluence ==
    pc = "done" => (log = PlainRun.log /\ result = PlainRun.result)

\* C10: chunks are handled one at a time in index order: the directory
\* never holds more than one chunk file, at most one call is in flight, the
\* call on chunk k+1 is issued only after the call on chunk k returned, and
\* chunk k+1 is exported only after the file of chunk k was deleted.
C10_OneChunkAtATime ==
    /\ Cardinality(files) <= 1
    /\ Cardinality(inflight) <= 1
    /\ \A p \in Positions :
          (log[p].op = "call" /\ log[p].idx >= 1) =>
              \E q \in 1..(p - 1) : log[q] = Entry("return", log[p].idx - 1, TRUE)
    /\ \A p \in Positions :
          (log[p].op = "export" /\ log[p].idx >= 1) =>
              \E q \in 1..(p - 1) : log[q] = Entry("unlink", log[p].idx - 1, TRUE)
    /\ \A p, q \in Positions :
          (p < q /\ log[p].op = log[q].op /\ log[p].op \in {"export", "call", "unlink"}) =>
              log[p].idx < log[q].idx

====
